---------------------------- MODULE Spec2Model ----------------------------
(***************************************************************************)
(* ont2cram: conversion of a directory of Fast5 (HDF5) files into one      *)
(* CRAM file.  The model follows src/ont2cram.py:                          *)
(*   - the Tag allocator (class Tag),                                      *)
(*   - the path normaliser remove_read_number,                             *)
(*   - the discovery pass (walk_fast5 / pre_process_group_attrs /          *)
(*     process_dataset) that fills global_dict_attributes,                 *)
(*   - the header loop of write_cram (tags and shared default values),     *)
(*   - the encoding loop of write_cram (one record per read group).        *)
(*                                                                         *)
(* Representation.  Python strings that the code takes apart are modelled  *)
(* as sequences of lexemes:                                                *)
(*   - an HDF5 path is a sequence of tokens: "/" separators, the marker    *)
(*     tokens "read_" / "Read_", identifier tokens (a maximal decimal run  *)
(*     such as "12", or a UUID such as "u1") and plain name tokens;        *)
(*   - a numpy dtype string is a sequence of characters (<<"<","i","8">>); *)
(*   - a text (FASTQ) is a sequence of tokens with "\n" line breaks;       *)
(*   - a tag name is a sequence of two characters of Tag.DIGITS.           *)
(***************************************************************************)
EXTENDS Integers, Sequences, FiniteSets, TLC

VARIABLES
    fast5_files,             \* run(): the listing of the input directory
    skipsignal,              \* --skipsignal
    fastq_dir,               \* --fastqdir given (TRUE) or not (FALSE)
    global_dict_attributes,  \* the Schema Directory, in insertion order
    comments_list,           \* write_cram: the header's CO lines
    outf,                    \* the records written to the CRAM file so far
    pc,                      \* position of the run
    file_idx,                \* index of the file the current pass is at
    group_idx,               \* index of the read group within that file
    fastq_path,              \* write_cram: the nonlocal fastq_path
    norm_in,                 \* a pair of raw paths handed to remove_read_number
    norm_out,                \* the pair of results (<<>> before the call)
    alloc                    \* header loop run on a directory of alloc.total keys

vars == <<fast5_files, skipsignal, fastq_dir, global_dict_attributes,
          comments_list, outf, pc, file_idx, group_idx, fastq_path,
          norm_in, norm_out, alloc>>

pipeline_vars == <<fast5_files, skipsignal, fastq_dir, global_dict_attributes,
                   comments_list, outf, pc, file_idx, group_idx, fastq_path>>

None == "<None>"

Max(S) == CHOOSE x \in S : \A y \in S : y <= x

IsPrefix(s, t) == Len(s) <= Len(t) /\ SubSeq(t, 1, Len(s)) = s

EndsWith(t, s) == Len(s) <= Len(t) /\ SubSeq(t, Len(t) - Len(s) + 1, Len(t)) = s

(***************************************************************************)
(* class Tag                                                               *)
(***************************************************************************)
DIGITS == << "0","1","2","3","4","5","6","7","8","9",
             "a","b","c","d","e","f","g","h","i","j","k","l","m",
             "n","o","p","q","r","s","t","u","v","w","x","y","z",
             "A","B","C","D","E","F","G","H","I","J","K","L","M",
             "N","O","P","Q","R","S","T","U","V","W","X","Y","Z" >>

BASE == Len(DIGITS)

FIRST_TAG    == <<"a","0">>
LAST_TAG     == <<"z","Z">>
READ_NUM_TAG == <<"X","0">>
FILENAME_TAG == <<"X","1">>

\* str.index: position (from 0) of a character in DIGITS
DigitIndex(c) == (CHOOSE i \in 1..BASE : DIGITS[i] = c) - 1

tag_to_int(tag_name) == DigitIndex(tag_name[1]) * BASE + DigitIndex(tag_name[2])

RECURSIVE int_to_tag_loop(_, _)
int_to_tag_loop(num, res) ==
    IF ~(res = <<>> \/ num > 0) THEN res
    ELSE int_to_tag_loop(num \div BASE, <<DIGITS[(num % BASE) + 1]>> \o res)

int_to_tag(num) == int_to_tag_loop(num, <<>>)

\* a faulty Tag.increment that leaves the counter where it is (C7 must
\* tell it from the code's)
increment_stuck(current_tag_num) == current_tag_num

\* Tag.increment
increment(current_tag_num) == current_tag_num + 1

\* a faulty allocation that exits when the advanced counter reaches zZ
\* (C8 must tell it from the code's)
allocate_exit_on_advance(current_tag_num) ==
    LET name == int_to_tag(current_tag_num)
    IN  [ name |-> name,
          next |-> current_tag_num + 1,
          exhausted |-> (int_to_tag(current_tag_num + 1) = LAST_TAG) ]

\* write_cram, lines 150-152: the code of the key at hand, the advanced
\* counter, and whether the run exits for lack of tag space.
allocate(current_tag_num) ==
    LET name == int_to_tag(current_tag_num)
    IN  [ name |-> name,
          next |-> increment(current_tag_num),
          exhausted |-> (name = LAST_TAG) ]

(***************************************************************************)
(* Path predicates and remove_read_number                                  *)
(***************************************************************************)
Decimals == {"12", "34"}
Uuids    == {"u1", "u2"}
Ids      == Decimals \cup Uuids

\* str.lower on a token; only the marker tokens hold upper-case letters that
\* matter to the search for "/read_"
Lower(tok) == IF tok = "Read_" THEN "read_" ELSE tok

\* the text "/read_" starts at position i of the lower-cased path
MarkerAt(p, i) == i + 1 <= Len(p) /\ p[i] = "/" /\ Lower(p[i+1]) = "read_"

\* ({?\w{8}-?\w{4}-?\w{4}-?\w{4}-?\w{12}}?|\d+) matches at position j
IdAt(p, j) == j <= Len(p) /\ p[j] \in Ids

remove_read_number(attribute_path) ==
    IF ~ \E i \in 1..Len(attribute_path) : MarkerAt(attribute_path, i)
    THEN <<attribute_path, None>>
    ELSE LET M == { i \in 1..Len(attribute_path) :
                      MarkerAt(attribute_path, i) /\ IdAt(attribute_path, i + 2) }
         IN  IF M # {}
             THEN LET i == Max(M)     \* the greedy (^.*\/read_)
                  IN  << SubSeq(attribute_path, 1, i + 1) \o <<"XXX">>
                           \o SubSeq(attribute_path, i + 3, Len(attribute_path)),
                         attribute_path[i + 2] >>
             ELSE <<attribute_path, None>>

is_fastq_path(hdf_path) == EndsWith(hdf_path, <<"BaseCalled_template", "/", "Fastq">>)

is_signal_path(hdf_path) ==
    /\ \E i \in 1..(Len(hdf_path) - 1) : hdf_path[i] = "/" /\ hdf_path[i+1] = "Raw"
    /\ EndsWith(hdf_path, <<"/", "Signal">>)

is_events_path(hdf_path) == EndsWith(hdf_path, <<"/", "Events">>)


(***************************************************************************)
(* Values and types.  An attribute value read from a file is              *)
(* [t |-> its numpy dtype.str, x |-> its content]; a Python object handed  *)
(* on to repr / set_tag is [cls |-> its class, x |-> its content].         *)
(***************************************************************************)
convert_t(typ) ==
    IF Len(typ) > 0 /\ typ[1] \in {"=", ">", "<", "|"} THEN Tail(typ) ELSE typ

get_type(value) == value.t

\* the class of the object h5py hands out for a dtype kind
ClassOf(kind) ==
    CASE kind \in {"i", "u"} -> "int"
      [] kind = "f"          -> "float"
      [] kind = "b"          -> "bool"
      [] kind = "S"          -> "bytes"
      [] OTHER               -> "str"

convert_type(value) ==
    LET typ == convert_t(get_type(value))
    IN  [ value    |-> IF typ[1] = "S"
                       THEN [cls |-> "str", x |-> value.x]      \* decode('ascii')
                       ELSE [cls |-> ClassOf(typ[1]), x |-> value.x],
          hdf_type |-> IF typ[1] \in {"U", "S"} THEN SubSeq(typ, 1, 1) ELSE typ ]

\* get_tag_type; "exit" stands for sys.exit("Unknown type:...")
get_tag_type(np_typecode) ==
    CASE np_typecode[1] \in {"u", "i"} -> "i"
      [] np_typecode[1] = "f"          -> "f"
      [] np_typecode[1] \in {"S", "U"} -> None
      [] OTHER                         -> "exit"

types_equal(t1, t2) ==
    IF t1[1] = "S" /\ t2[1] = "S" THEN TRUE
    ELSE IF t1[1] = "U" /\ t2[1] = "U" THEN TRUE
    ELSE t1 = t2

\* repr() of a Python object, as a sequence of lexemes
Repr(obj) ==
    CASE obj.cls = "int"   -> <<obj.x>>
      [] obj.cls = "float" -> <<obj.x, ".0">>
      [] obj.cls = "bool"  -> <<obj.x>>
      [] obj.cls = "str"   -> <<"'", obj.x, "'">>
      [] obj.cls = "bytes" -> <<"b'", obj.x, "'">>
      [] OTHER             -> <<"None">>

\* the number a numeric content stands for
Num(x) == IF x = "True" THEN "1" ELSE IF x = "False" THEN "0" ELSE x

\* Python's pair[0] == val for two values read from files
PyEq(a, b) ==
    LET ca == ClassOf(convert_t(a.t)[1])
        cb == ClassOf(convert_t(b.t)[1])
        numeric == {"int", "float", "bool"}
    IN  IF ca \in numeric /\ cb \in numeric THEN Num(a.x) = Num(b.x)
        ELSE ca = cb /\ a.x = b.x

(***************************************************************************)
(* global_dict_attributes: a sequence of entries in insertion order.       *)
(*   key   the canonical key (a path)                                      *)
(*   v0    pair[0]: the first value seen (attribute) or, for a column,     *)
(*         [t |-> the column's type, x |-> None]                           *)
(*   v1    pair[1]: a count ([is_str |-> FALSE, n |-> count]) until the    *)
(*         header loop overwrites it with the string "TG:.. CV:.."         *)
(*         ([is_str |-> TRUE, TG |-> tag, CV |-> repr or NoCV])            *)
(***************************************************************************)
NoCV == <<>>

Count(n) == [is_str |-> FALSE, n |-> n, TG |-> <<>>, CV |-> NoCV]

TagAndVal(tg, cv) == [is_str |-> TRUE, n |-> 0, TG |-> tg, CV |-> cv]

\* position of a key in the dictionary, 0 for KeyError
KeyIndex(dict, key) ==
    IF \E i \in 1..Len(dict) : dict[i].key = key
    THEN CHOOSE i \in 1..Len(dict) : dict[i].key = key
    ELSE 0

FullKey(path, name) == path \o <<"/", name>>

\* "read_number" in key
HasReadNumber(key) == \E i \in 1..Len(key) : key[i] = "read_number"

(***************************************************************************)
(* Discovery pass                                                          *)
(***************************************************************************)
\* the columns of a dataset node: dtype.fields.items() or one nameless column
ColumnsOf(hdf_node) ==
    IF hdf_node.fields # <<>>
    THEN [i \in 1..Len(hdf_node.fields) |->
            <<hdf_node.fields[i].name, hdf_node.fields[i].type>>]
    ELSE << <<"noname", hdf_node.dtype>> >>

\* process_dataset (lines 78-90), columns from position i on; the result is
\* the dictionary and whether the run exited
RECURSIVE process_columns(_, _, _, _)
process_columns(dict, hdf_path, columns, i) ==
    IF i > Len(columns) THEN [dict |-> dict, exit |-> FALSE]
    ELSE LET col_name == columns[i][1]
             col_type == convert_t(columns[i][2])
             full_key == FullKey(hdf_path, col_name)
             k        == KeyIndex(dict, full_key)
         IN  IF k = 0
             THEN process_columns(
                      Append(dict, [key |-> full_key,
                                    v0  |-> [t |-> col_type, x |-> None],
                                    v1  |-> Count(0)]),
                      hdf_path, columns, i + 1)
             ELSE IF dict[k].v1.n # 0
                  THEN [dict |-> dict, exit |-> TRUE]  \* pair[0] is no type string
             ELSE IF ~ types_equal(dict[k].v0.t, col_type)
                  THEN [dict |-> dict, exit |-> TRUE]
             ELSE process_columns(dict, hdf_path, columns, i + 1)

process_dataset(dict, hdf_path, columns) ==
    IF is_fastq_path(hdf_path) THEN [dict |-> dict, exit |-> FALSE]
    ELSE process_columns(dict, hdf_path, columns, 1)

\* the attribute loop of pre_process_group_attrs (lines 112-119)
RECURSIVE count_attrs(_, _, _, _)
count_attrs(dict, node_path, attrs, i) ==
    IF i > Len(attrs) THEN dict
    ELSE LET full_key == FullKey(node_path, attrs[i][1])
             val      == attrs[i][2]
             k        == KeyIndex(dict, full_key)
         IN  IF k = 0
             THEN count_attrs(Append(dict, [key |-> full_key, v0 |-> val,
                                            v1 |-> Count(1)]),
                              node_path, attrs, i + 1)
             ELSE IF dict[k].v1.n # 0 /\ PyEq(dict[k].v0, val)
                  THEN count_attrs([dict EXCEPT ![k].v1 = Count(dict[k].v1.n + 1)],
                                   node_path, attrs, i + 1)
             ELSE count_attrs(dict, node_path, attrs, i + 1)

pre_process_group_attrs(dict, hdf_node) ==
    LET node_path == remove_read_number(hdf_node.name)[1]
        d1 == IF hdf_node.kind = "Dataset"
              THEN process_dataset(dict, node_path, ColumnsOf(hdf_node))
              ELSE [dict |-> dict, exit |-> FALSE]
    IN  IF d1.exit THEN d1
        ELSE [dict |-> count_attrs(d1.dict, node_path, hdf_node.attrs, 1),
              exit |-> FALSE]

\* walk_fast5 with pre_process_group_attrs: the root node, then visititems
RECURSIVE walk_nodes(_, _, _)
walk_nodes(dict, nodes, i) ==
    IF i > Len(nodes) THEN [dict |-> dict, exit |-> FALSE]
    ELSE LET r == pre_process_group_attrs(dict, nodes[i])
         IN  IF r.exit THEN r ELSE walk_nodes(r.dict, nodes, i + 1)

walk_fast5(dict, file) == walk_nodes(dict, file.nodes, 1)

(***************************************************************************)
(* write_cram: the header loop (lines 141-158)                             *)
(***************************************************************************)
\* a faulty is_shared_value that takes half of the files for a majority
\* (C6 must tell it from the code's)
is_shared_value_at_half(value, total_fast5_files) == value >= total_fast5_files \div 2

is_shared_value(value, total_fast5_files) == value > total_fast5_files \div 2

\* one iteration of the loop on entry e with the counter at current_tag_num
header_entry(e, current_tag_num, total_fast5_files) ==
    LET is_column == (e.v1.n = 0)
        conv      == convert_type(e.v0)
        hdf_type  == IF is_column THEN e.v0.t ELSE conv.hdf_type
        a         == allocate(current_tag_num)
        cv        == IF is_shared_value(e.v1.n, total_fast5_files)
                        /\ ~ HasReadNumber(e.key)
                     THEN Repr(conv.value) ELSE NoCV
    IN  [ exit    |-> a.exhausted,
          next    |-> a.next,
          comment |-> [role |-> IF is_column THEN "COL" ELSE "ATR",
                       key |-> e.key, hdf_type |-> hdf_type,
                       TG |-> a.name, CV |-> cv],
          v1      |-> TagAndVal(a.name, cv) ]

RECURSIVE header_loop(_, _, _, _, _)
header_loop(dict, comments, current_tag_num, total_fast5_files, i) ==
    IF i > Len(dict) THEN [dict |-> dict, comments |-> comments, exit |-> FALSE]
    ELSE LET h == header_entry(dict[i], current_tag_num, total_fast5_files)
         IN  IF h.exit
             THEN [dict |-> dict, comments |-> comments, exit |-> TRUE]
             ELSE header_loop([dict EXCEPT ![i].v1 = h.v1],
                              Append(comments, h.comment),
                              h.next, total_fast5_files, i + 1)

\* get_tag_name_cv
get_tag_name_cv(dict, hdf_full_path) ==
    LET pair == dict[KeyIndex(dict, hdf_full_path)]
    IN  <<pair.v1.TG, pair.v1.CV>>

(***************************************************************************)
(* write_cram: the encoding loop (lines 166-254)                           *)
(***************************************************************************)
\* a tag of an AlignedSegment: the type code given to set_tag, the class of
\* the Python object and its content
TagValue(value_type, cls, v) == [value_type |-> value_type, cls |-> cls, v |-> v]

\* AlignedSegment.set_tag: a tag of the same name is replaced
set_tag(tags, tag_name, tag_value) ==
    [t \in (DOMAIN tags) \cup {tag_name} |->
        IF t = tag_name THEN tag_value ELSE tags[t]]

\* write_cram.process_dataset (lines 183-205), columns from position i on
RECURSIVE cram_columns(_, _, _, _, _, _)
cram_columns(dict, tags, hdf_path, dset, columns, i) ==
    IF i > Len(columns) THEN [tags |-> tags, exit |-> FALSE]
    ELSE LET col_name == columns[i][1]
             tag_name == get_tag_name_cv(dict, FullKey(hdf_path, col_name))[1]
             col      == IF col_name = "noname" THEN dset.data
                         ELSE dset.fields[i].data          \* get_column
             is_bytes == convert_t(columns[i][2])[1] = "S"
         IN  IF col = <<>>
             THEN [tags |-> tags, exit |-> TRUE]           \* col_values[0]
             ELSE cram_columns(dict,
                      set_tag(tags, tag_name,
                              TagValue(None, IF is_bytes THEN "bytes" ELSE "list", col)),
                      hdf_path, dset, columns, i + 1)

\* a faulty process_dataset that forgets the events datasets (C5 must tell
\* it from the code's)
cram_process_dataset_signal_only(dict, skip, tags, hdf_path, dset, columns) ==
    IF is_signal_path(hdf_path) /\ skip THEN [tags |-> tags, exit |-> FALSE]
    ELSE IF is_fastq_path(hdf_path) THEN [tags |-> tags, exit |-> FALSE]
    ELSE cram_columns(dict, tags, hdf_path, dset, columns, 1)

cram_process_dataset(dict, skip, tags, hdf_path, dset, columns) ==
    IF is_signal_path(hdf_path) /\ skip THEN [tags |-> tags, exit |-> FALSE]
    ELSE IF is_events_path(hdf_path) /\ skip THEN [tags |-> tags, exit |-> FALSE]
    ELSE IF is_fastq_path(hdf_path) THEN [tags |-> tags, exit |-> FALSE]
    ELSE cram_columns(dict, tags, hdf_path, dset, columns, 1)

\* the attribute loop of process_attrs (lines 220-227)
RECURSIVE cram_attrs(_, _, _, _, _)
cram_attrs(dict, tags, name, attrs, i) ==
    IF i > Len(attrs) THEN [tags |-> tags, exit |-> FALSE]
    ELSE LET conv == convert_type(attrs[i][2])
             tc   == get_tag_name_cv(dict, FullKey(name, attrs[i][1]))
         IN  IF Repr(conv.value) # tc[2]
             THEN IF get_tag_type(conv.hdf_type) = "exit"
                  THEN [tags |-> tags, exit |-> TRUE]
                  ELSE cram_attrs(dict,
                           set_tag(tags, tc[1],
                                   TagValue(get_tag_type(conv.hdf_type),
                                            conv.value.cls, <<conv.value.x>>)),
                           name, attrs, i + 1)
             ELSE cram_attrs(dict, tags, name, attrs, i + 1)

\* process_attrs (lines 208-227) on one visited node; st holds the segment's
\* tags and the nonlocal fastq_path
process_attrs(dict, skip, st, group_or_dset) ==
    LET fq   == IF is_fastq_path(group_or_dset.name)
                THEN group_or_dset.name ELSE st.fastq_path
        nr   == remove_read_number(group_or_dset.name)
        name == nr[1]
        t1   == IF nr[2] # None
                THEN set_tag(st.tags, READ_NUM_TAG, TagValue(None, "str", <<nr[2]>>))
                ELSE st.tags
        d    == IF group_or_dset.kind = "Dataset"
                THEN cram_process_dataset(dict, skip, t1, name, group_or_dset,
                         IF group_or_dset.fields # <<>>
                         THEN [i \in 1..Len(group_or_dset.fields) |->
                                 <<group_or_dset.fields[i].name,
                                   group_or_dset.fields[i].type>>]
                         ELSE << <<"noname", group_or_dset.dtype>> >>)
                ELSE [tags |-> t1, exit |-> FALSE]
    IN  IF d.exit THEN [tags |-> d.tags, fastq_path |-> fq, exit |-> TRUE]
        ELSE LET a == cram_attrs(dict, d.tags, name, group_or_dset.attrs, 1)
             IN  [tags |-> a.tags, fastq_path |-> fq, exit |-> a.exit]

\* the first "/" after position 1 of a node path, or one past its end
SegmentEnd(p) ==
    IF \E i \in 2..Len(p) : p[i] = "/"
    THEN CHOOSE i \in 2..Len(p) : p[i] = "/" /\ \A j \in 2..(i-1) : p[j] # "/"
    ELSE Len(p) + 1

\* the path of the top-level member of the file a node lies in
MemberOf(p) == SubSeq(p, 1, SegmentEnd(p) - 1)

RECURSIVE Members(_, _, _)
Members(nodes, i, acc) ==
    IF i > Len(nodes) THEN acc
    ELSE LET m == MemberOf(nodes[i].name)
         IN  IF nodes[i].name = <<"/">> \/ \E j \in 1..Len(acc) : acc[j] = m
             THEN Members(nodes, i + 1, acc)
             ELSE Members(nodes, i + 1, Append(acc, m))

\* lines 229-231: the file itself, or its top-level members when the first
\* of them is named read_...
read_groups(fast5) ==
    LET keys == Members(fast5.nodes, 1, <<>>)
    IN  IF keys[1][2] = "read_" THEN keys ELSE << <<"/">> >>

\* whether visititems on the group at path rg reaches the node at path p
Visits(rg, p) ==
    IF rg = <<"/">> THEN p # <<"/">> ELSE IsPrefix(rg \o <<"/">>, p)

\* read_group.visititems(partial(process_attrs, a_s)), nodes from i on
RECURSIVE visititems(_, _, _, _, _, _)
visititems(dict, skip, st, nodes, rg, i) ==
    IF i > Len(nodes) \/ st.exit THEN st
    ELSE IF Visits(rg, nodes[i].name)
         THEN visititems(dict, skip, process_attrs(dict, skip, st, nodes[i]),
                         nodes, rg, i + 1)
         ELSE visititems(dict, skip, st, nodes, rg, i + 1)

\* str.splitlines on a text given as tokens and "\n" breaks
RECURSIVE splitlines_loop(_, _, _, _)
splitlines_loop(text, i, line, acc) ==
    IF i > Len(text) THEN IF line = <<>> THEN acc ELSE Append(acc, line)
    ELSE IF text[i] = "\n" THEN splitlines_loop(text, i + 1, <<>>, Append(acc, line))
    ELSE splitlines_loop(text, i + 1, Append(line, text[i]), acc)

splitlines(text) ==
    IF text = <<>> THEN <<>>
    ELSE IF text[Len(text)] = "\n"
         THEN splitlines_loop(SubSeq(text, 1, Len(text) - 1), 1, <<>>, <<>>)
              \o (IF Len(text) = 1 \/ text[Len(text) - 1] = "\n" THEN << <<>> >> ELSE <<>>)
         ELSE splitlines_loop(text, 1, <<>>, <<>>)

NoneLine  == <<None>>        \* the None held by the placeholder list
NoneArray == <<-1>>          \* qualitystring_to_array(None)
MissingFile == <<"<missing>">>

\* a faulty read_fastq_from_file that takes a file of any length (C9 must
\* tell it from the code's)
read_fastq_from_file_unchecked(fast5) ==
    IF fast5.fastq = MissingFile THEN [lines |-> <<>>, exit |-> TRUE]
    ELSE [lines |-> splitlines(fast5.fastq), exit |-> FALSE]

\* read_fastq_from_file; exit for a missing file or a line count other than 4
read_fastq_from_file(fast5) ==
    IF fast5.fastq = MissingFile THEN [lines |-> <<>>, exit |-> TRUE]
    ELSE LET lines == splitlines(fast5.fastq)
         IN  [lines |-> lines, exit |-> Len(lines) # 4]

\* phred score of a quality character (offset 33)
Phred(c) == CASE c = "!" -> 0 [] c = "+" -> 10 [] c = "5" -> 20 [] OTHER -> 40

qualitystring_to_array(line) ==
    IF line = NoneLine THEN NoneArray ELSE [i \in 1..Len(line) |-> Phred(line[i])]

\* the data of the node of a file at an absolute path: read_group[path].value
NodeAt(fast5, path) ==
    fast5.nodes[CHOOSE i \in 1..Len(fast5.nodes) : fast5.nodes[i].name = path]

\* lines 234-254 for one read group: the segment built, the fastq_path left
\* behind, and whether the run exited before outf.write
encode_read_group(dict, skip, use_fastq_dir, fast5, rg, fq_path, origin) ==
    LET st0 == [tags |-> set_tag(<<>>, FILENAME_TAG,
                                 TagValue(None, "str", <<fast5.basename>>)),
                fastq_path |-> fq_path, exit |-> FALSE]
        st  == visititems(dict, skip, st0, fast5.nodes, rg, 1)
        l1  == IF st.fastq_path # None
               THEN splitlines(NodeAt(fast5, st.fastq_path).data)
               ELSE << <<"nofastq">>, NoneLine, NoneLine, NoneLine >>
        rf  == IF use_fastq_dir THEN read_fastq_from_file(fast5)
               ELSE [lines |-> l1, exit |-> FALSE]
        fastq_lines == rf.lines
    IN  IF st.exit \/ rf.exit \/ Len(fastq_lines) < 4
        THEN [exit |-> TRUE, fastq_path |-> st.fastq_path, a_s |-> <<>>]
        ELSE [exit |-> FALSE, fastq_path |-> st.fastq_path,
              a_s |-> [query_name      |-> fastq_lines[1],
                       query_sequence  |-> fastq_lines[2],
                       query_qualities |-> qualitystring_to_array(fastq_lines[4]),
                       flag            |-> 4,
                       tags            |-> st.tags,
                       origin          |-> origin]]

(***************************************************************************)
(* The input: Fast5 files.  A file is its base name, its nodes in the      *)
(* order walk_fast5 meets them (the root, then visititems' order) and the  *)
(* text of the .fastq file of the same name in the FASTQ directory.        *)
(* A node is [name, kind, dtype, fields, data, attrs].                     *)
(***************************************************************************)
MaxFiles == 3

Int64(x)   == [t |-> <<"<", "i", "8">>, x |-> x]
Text(x)    == [t |-> <<"<", "U", "1">>, x |-> x]
Bool(x)    == [t |-> <<"|", "b", "1">>, x |-> x]

Group(name, attrs) ==
    [name |-> name, kind |-> "Group", dtype |-> <<>>, fields |-> <<>>,
     data |-> <<>>, attrs |-> attrs]

Dataset(name, dtype, fields, data, attrs) ==
    [name |-> name, kind |-> "Dataset", dtype |-> dtype, fields |-> fields,
     data |-> data, attrs |-> attrs]

\* FASTQ texts of n lines whose first line names the read
FastqText(id, n) ==
    CASE n = 4 -> <<"@", id, "\n", "A", "C", "\n", "+", "\n", "!", "5", "\n">>
      [] n = 3 -> <<"@", id, "\n", "A", "C", "\n", "+", "\n">>
      [] OTHER -> <<"@", id, "\n", "A", "C", "\n", "+", "\n", "5", "5", "\n", "\n">>

\* the embedded FASTQ dataset of n lines; none when n is 0
FastqNode(prefix, id, n) ==
    IF n = 0 THEN <<>>
    ELSE << Dataset(prefix \o <<"/", "Analyses", "/", "Basecall_1D_000", "/",
                                "BaseCalled_template", "/", "Fastq">>,
                    <<"|", "S", "9">>, <<>>, FastqText(id, n), <<>>) >>

\* a single-read file: read number rid, file_version v, start_mux k, an
\* embedded FASTQ of fq lines, an Events column of type evt, more attributes
\* on the read's group
SingleRead(rid, v, k, fq, evt, more) ==
    << Group(<<"/">>, << <<"file_version", v>> >>) >>
    \o FastqNode(<<>>, rid, fq)
    \o << Dataset(<<"/", "Analyses", "/", "EventDetection_000", "/", "Reads", "/",
                    "Read_", rid, "/", "Events">>,
                  <<"|", "V", "8">>,
                  << [name |-> "mean", type |-> evt, data |-> <<"1", "2">>] >>,
                  <<>>,
                  << <<"read_number", Int64(rid)>> >>),
          Group(<<"/", "Raw", "/", "Reads", "/", "Read_", rid>>,
                << <<"start_mux", k>> >> \o more),
          Dataset(<<"/", "Raw", "/", "Reads", "/", "Read_", rid, "/", "Signal">>,
                  <<"<", "i", "2">>, <<>>, <<"100", "101">>, <<>>) >>

\* the subtree of one read of a multi-read file
ReadSubtree(uuid, run, k, fq) ==
    << Group(<<"/", "read_", uuid>>, << <<"run_id", run>> >>) >>
    \o FastqNode(<<"/", "read_", uuid>>, uuid, fq)
    \o << Group(<<"/", "read_", uuid, "/", "Raw">>, << <<"start_mux", k>> >>),
          Dataset(<<"/", "read_", uuid, "/", "Raw", "/", "Signal">>,
                  <<"<", "i", "2">>, <<>>, <<"100", "101">>, <<>>) >>

MultiRead(v, fq1, fq2) ==
    << Group(<<"/">>, << <<"file_version", v>> >>) >>
    \o ReadSubtree("u1", Text("runA"), Int64("7"), fq1)
    \o ReadSubtree("u2", Text("runB"), Int64("7"), fq2)

GoodFastq == FastqText("ext", 4)
BadFastq  == FastqText("ext", 5)

\* what a file of the corpus may hold: its nodes and its companion FASTQ
Catalogue ==
    << [nodes |-> SingleRead("12", Int64("1"), Int64("7"), 4, <<"float64">>, <<>>),
        fastq |-> GoodFastq],
       [nodes |-> SingleRead("34", Int64("2"), Int64("9"), 4, <<"float64">>, <<>>),
        fastq |-> BadFastq],
       [nodes |-> SingleRead("12", Int64("1"), Text("7"), 5, <<"float64">>,
                             << <<"flag", Bool("True")>> >>),
        fastq |-> GoodFastq],
       [nodes |-> SingleRead("12", Int64("1"), Int64("7"), 0, <<"float64">>, <<>>),
        fastq |-> MissingFile],
       [nodes |-> SingleRead("12", Int64("1"), Int64("7"), 3, <<"float64">>, <<>>),
        fastq |-> GoodFastq],
       [nodes |-> SingleRead("12", Int64("1"), Int64("7"), 4, <<"int64">>, <<>>),
        fastq |-> GoodFastq],
       [nodes |-> MultiRead(Int64("1"), 4, 0), fastq |-> GoodFastq] >>

BaseNames == <<"f1.fast5", "f2.fast5", "f3.fast5", "f4.fast5", "f5.fast5", "f6.fast5">>

\* get_list_of_fast5_files: up to MaxFiles files in listing order; the state
\* names each file by the entry of Catalogue that it holds
Corpora == UNION { [1..n -> 1..Len(Catalogue)] : n \in 1..MaxFiles }

\* the file at position i of the listing
Fast5(i) ==
    [basename |-> BaseNames[i],
     nodes    |-> Catalogue[fast5_files[i]].nodes,
     fastq    |-> Catalogue[fast5_files[i]].fastq]

(***************************************************************************)
(* The run: run() and write_cram                                           *)
(***************************************************************************)
AllocIdle == [total |-> 0, done |-> 0, current_tag_num |-> 0, name |-> <<>>, pc |-> "idle"]

Init ==
    /\ fast5_files \in Corpora
    /\ skipsignal \in BOOLEAN
    /\ fastq_dir \in BOOLEAN
    /\ global_dict_attributes = <<>>
    /\ comments_list = <<>>
    /\ outf = <<>>
    /\ pc = "phase1"
    /\ file_idx = 1
    /\ group_idx = 1
    /\ fastq_path = None
    /\ norm_in = <<>>
    /\ norm_out = <<>>
    /\ alloc = AllocIdle

\* run, lines 268-269: walk_fast5 on the next file
PreProcess ==
    /\ pc = "phase1"
    /\ LET r == walk_fast5(global_dict_attributes, Fast5(file_idx))
           last == (file_idx = Len(fast5_files))
       IN  IF r.exit
           THEN /\ pc' = "exit_phase1"
                /\ UNCHANGED <<global_dict_attributes, file_idx>>
           ELSE /\ global_dict_attributes' = r.dict
                /\ file_idx' = IF last THEN 1 ELSE file_idx + 1
                /\ pc' = IF last THEN "header" ELSE "phase1"
    /\ UNCHANGED <<fast5_files, skipsignal, fastq_dir, comments_list, outf,
                   group_idx, fastq_path, norm_in, norm_out, alloc>>

\* write_cram, lines 141-166: the header loop, then the output file is opened
WriteHeader ==
    /\ pc = "header"
    /\ LET h == header_loop(global_dict_attributes, <<>>, tag_to_int(FIRST_TAG),
                            Len(fast5_files), 1)
       IN  IF h.exit
           THEN /\ pc' = "exit_header"
                /\ UNCHANGED <<global_dict_attributes, comments_list>>
           ELSE /\ global_dict_attributes' = h.dict
                /\ comments_list' = h.comments
                /\ pc' = "phase2"
    /\ UNCHANGED <<fast5_files, skipsignal, fastq_dir, outf, file_idx,
                   group_idx, fastq_path, norm_in, norm_out, alloc>>

\* write_cram, lines 168-254: one read group of the file at hand
WriteRecord ==
    /\ pc = "phase2"
    /\ LET fast5 == Fast5(file_idx)
           rgs   == read_groups(fast5)
           e     == encode_read_group(global_dict_attributes, skipsignal, fastq_dir,
                                      fast5, rgs[group_idx], fastq_path,
                                      [file |-> file_idx, group |-> rgs[group_idx]])
       IN  IF e.exit
           THEN /\ pc' = "exit_phase2"
                /\ UNCHANGED <<outf, file_idx, group_idx, fastq_path>>
           ELSE /\ outf' = Append(outf, e.a_s)
                /\ IF group_idx < Len(rgs)
                   THEN /\ group_idx' = group_idx + 1
                        /\ fastq_path' = e.fastq_path
                        /\ UNCHANGED <<file_idx, pc>>
                   ELSE /\ group_idx' = 1
                        /\ fastq_path' = None
                        /\ file_idx' = IF file_idx = Len(fast5_files)
                                       THEN file_idx ELSE file_idx + 1
                        /\ pc' = IF file_idx = Len(fast5_files)
                                 THEN "done" ELSE "phase2"
    /\ UNCHANGED <<fast5_files, skipsignal, fastq_dir, global_dict_attributes,
                   comments_list, norm_in, norm_out, alloc>>

Next == PreProcess \/ WriteHeader \/ WriteRecord

Spec == Init /\ [][Next]_vars

(***************************************************************************)
(* remove_read_number on its own: pairs of node paths                      *)
(***************************************************************************)
MaxPathLen == 6

PathTokens == {"/", "read_", "Read_", "12", "u1", "Raw"}

\* an h5py node name: absolute, no empty segment, no trailing "/" (but the
\* root); a decimal run or a UUID is one token, so no two are adjacent
WellFormed(p) ==
    /\ p[1] = "/"
    /\ Len(p) = 1 \/ p[Len(p)] # "/"
    /\ \A i \in 1..(Len(p) - 1) :
          /\ ~(p[i] = "/" /\ p[i+1] = "/")
          /\ ~(p[i] \in Ids /\ p[i+1] \in Ids)

NodePaths ==
    UNION { { p \in [1..n -> PathTokens] : WellFormed(p) } : n \in 1..MaxPathLen }

\* position j of p holds the identifier of a per-read segment
IdSlot(p, j) == j >= 3 /\ j <= Len(p) /\ MarkerAt(p, j - 2) /\ p[j] \in Ids

\* p itself and p with the identifier of one per-read segment replaced
Variants(p) ==
    {p} \cup { [p EXCEPT ![j] = id] : j \in { k \in 1..Len(p) : IdSlot(p, k) },
                                      id \in Ids }

PipelineIdle ==
    /\ fast5_files = <<>>
    /\ skipsignal = FALSE
    /\ fastq_dir = FALSE
    /\ global_dict_attributes = <<>>
    /\ comments_list = <<>>
    /\ outf = <<>>
    /\ pc = "idle"
    /\ file_idx = 0
    /\ group_idx = 0
    /\ fastq_path = None

InitNorm ==
    /\ PipelineIdle
    /\ alloc = AllocIdle
    /\ norm_in \in UNION { { <<p, q>> : q \in Variants(p) } : p \in NodePaths }
    /\ norm_out = <<>>

Normalize ==
    /\ norm_in # <<>>
    /\ norm_out = <<>>
    /\ norm_out' = << remove_read_number(norm_in[1]), remove_read_number(norm_in[2]) >>
    /\ UNCHANGED <<pipeline_vars, norm_in, alloc>>

SpecNorm == InitNorm /\ [][Normalize]_vars

(***************************************************************************)
(* The header loop on its own: a dictionary of alloc.total keys, one       *)
(* iteration (lines 150-152) per step                                      *)
(***************************************************************************)
NearFull == 3

\* the number of codes from FIRST_TAG up to the one before LAST_TAG
Capacity == tag_to_int(LAST_TAG) - tag_to_int(FIRST_TAG)

KeyCounts == (1..NearFull) \cup ((Capacity - NearFull)..(Capacity + NearFull))

InitAlloc ==
    /\ PipelineIdle
    /\ norm_in = <<>>
    /\ norm_out = <<>>
    /\ alloc \in { [total |-> n, done |-> 0,
                    current_tag_num |-> tag_to_int(FIRST_TAG),
                    name |-> <<>>, pc |-> "header"] : n \in KeyCounts }

HeaderStep ==
    /\ alloc.pc = "header"
    /\ LET a == allocate(alloc.current_tag_num)
       IN  IF a.exhausted
           THEN alloc' = [alloc EXCEPT !.pc = "exit_header",
                                       !.current_tag_num = a.next]
           ELSE alloc' = [alloc EXCEPT !.done = alloc.done + 1,
                                       !.current_tag_num = a.next,
                                       !.name = a.name,
                                       !.pc = IF alloc.done + 1 = alloc.total
                                              THEN "phase2" ELSE "header"]
    /\ UNCHANGED <<pipeline_vars, norm_in, norm_out>>

SpecAlloc == InitAlloc /\ [][HeaderStep]_vars

(***************************************************************************)
(* Vocabulary of the properties                                            *)
(***************************************************************************)
\* the attributes a file holds: the node, the canonical key and the value
AttrOccs(fast5) ==
    { [node |-> fast5.nodes[i].name,
       key  |-> FullKey(remove_read_number(fast5.nodes[i].name)[1],
                        fast5.nodes[i].attrs[j][1]),
       val  |-> fast5.nodes[i].attrs[j][2]] :
         <<i, j>> \in { ij \in (1..Len(fast5.nodes)) \X (1..2) :
                           ij[2] <= Len(fast5.nodes[ij[1]].attrs) } }

\* the columns a file holds: the dataset, the canonical key and the type
ColOccs(fast5) ==
    { [node |-> fast5.nodes[i].name,
       key  |-> FullKey(remove_read_number(fast5.nodes[i].name)[1],
                        ColumnsOf(fast5.nodes[i])[j][1]),
       type |-> convert_t(ColumnsOf(fast5.nodes[i])[j][2])] :
         <<i, j>> \in { ij \in (1..Len(fast5.nodes)) \X (1..2) :
                           /\ fast5.nodes[ij[1]].kind = "Dataset"
                           /\ ~ is_fastq_path(fast5.nodes[ij[1]].name)
                           /\ ij[2] <= Len(ColumnsOf(fast5.nodes[ij[1]])) } }

\* the file reports key K, and with the value v wherever it holds K
FileReports(fast5, K, v) ==
    /\ \E o \in AttrOccs(fast5) : o.key = K
    /\ \A o \in AttrOccs(fast5) : o.key = K => o.val = v

AttrKeys  == UNION { { o.key : o \in AttrOccs(Fast5(i)) } : i \in 1..Len(fast5_files) }
AttrVals  == UNION { { o.val : o \in AttrOccs(Fast5(i)) } : i \in 1..Len(fast5_files) }

Encoding == pc \in {"phase2", "done", "exit_phase2"}

\* the tag and the default of a key once the header is written
TagOf(K)     == get_tag_name_cv(global_dict_attributes, K)[1]
DefaultOf(K) == get_tag_name_cv(global_dict_attributes, K)[2]

\* record r carries the tag of key K with the value val of a file
Carries(r, K, val) ==
    /\ TagOf(K) \in DOMAIN r.tags
    /\ r.tags[TagOf(K)].v = <<convert_type(val).value.x>>
    /\ r.tags[TagOf(K)].cls = convert_type(val).value.cls

Rendered(val) == Repr(convert_type(val).value)

\* the files the discovery pass has been through
Scanned ==
    CASE pc = "phase1"      -> file_idx - 1
      [] pc = "exit_phase1" -> file_idx
      [] OTHER              -> Len(fast5_files)

(***************************************************************************)
(* C1: if more than floor(N/2) of the N files report the same value v for  *)
(* an attribute key K that is no read_number key, then v is K's default in *)
(* the header, the records of the files reporting v carry no tag for K,    *)
(* and the records of the files reporting another value carry K's tag with *)
(* that value, whatever the listing order.                                 *)
(***************************************************************************)
C1_MajorityValuePromoted ==
    Encoding =>
      \A K \in AttrKeys : \A v \in AttrVals :
        ( /\ ~ HasReadNumber(K)
          /\ Cardinality({ i \in 1..Len(fast5_files) :
                             FileReports(Fast5(i), K, v) })
               > Len(fast5_files) \div 2 )
        => /\ DefaultOf(K) = Rendered(v)
           /\ \A n \in 1..Len(outf) :
                LET r == outf[n]
                    f == Fast5(r.origin.file)
                IN  /\ FileReports(f, K, v) => TagOf(K) \notin DOMAIN r.tags
                    /\ \A w \in AttrVals \ {v} :
                         FileReports(f, K, w) => Carries(r, K, w)

(***************************************************************************)
(* C2: when discovery meets a key again with a value (attribute) or an     *)
(* element type (column) of an incompatible type, the run exits at once    *)
(* and no record is ever written.                                          *)
(***************************************************************************)
AttrTypeConflict(n) ==
    \E i, j \in 1..n :
      \E a \in AttrOccs(Fast5(i)), b \in AttrOccs(Fast5(j)) :
         /\ a.key = b.key
         /\ ~ types_equal(convert_type(a.val).hdf_type, convert_type(b.val).hdf_type)

ColumnTypeConflict(n) ==
    \E i, j \in 1..n :
      \E a \in ColOccs(Fast5(i)), b \in ColOccs(Fast5(j)) :
         a.key = b.key /\ ~ types_equal(a.type, b.type)

C2_TypeConflictExits ==
    (AttrTypeConflict(Scanned) \/ ColumnTypeConflict(Scanned))
      => (pc = "exit_phase1" /\ outf = <<>>)

(***************************************************************************)
(* C3: with signal suppression off, every attribute of a node of a read    *)
(* (the file's root node and the read's own group node included) is        *)
(* either carried by the read's record with the read's value, or absent    *)
(* from it while the header default of its key is the read's value.        *)
(***************************************************************************)
BelongsTo(rg, p) == p = <<"/">> \/ p = rg \/ Visits(rg, p)

C3_MetadataRoundTrip ==
    (Encoding /\ ~ skipsignal) =>
      \A n \in 1..Len(outf) :
        LET r == outf[n]
        IN  \A o \in AttrOccs(Fast5(r.origin.file)) :
              BelongsTo(r.origin.group, o.node) =>
                 \/ Carries(r, o.key, o.val)
                 \/ /\ TagOf(o.key) \notin DOMAIN r.tags
                    /\ DefaultOf(o.key) = Rendered(o.val)

(***************************************************************************)
(* C4: remove_read_number maps two paths that differ only in the           *)
(* identifier of one per-read segment to the same canonical key, also when *)
(* the paths hold more than one read_ segment; a path without such a       *)
(* segment comes back unchanged with no identifier.                        *)
(***************************************************************************)
DifferInOneId(p, q) ==
    /\ Len(p) = Len(q)
    /\ \E j \in 1..Len(p) :
          /\ IdSlot(p, j) /\ IdSlot(q, j) /\ p[j] # q[j]
          /\ \A i \in (1..Len(p)) \ {j} : p[i] = q[i]

NoReadSegment(p) == ~ \E j \in 1..Len(p) : IdSlot(p, j)

C4_SameCanonicalKey ==
    norm_out # <<>> =>
      /\ DifferInOneId(norm_in[1], norm_in[2]) => norm_out[1][1] = norm_out[2][1]
      /\ NoReadSegment(norm_in[1]) => norm_out[1] = <<norm_in[1], None>>

(***************************************************************************)
(* C5 as stated: with --skipsignal a record holds no tag of any key,       *)
(* column or attribute, under a raw-signal or events dataset.              *)
(***************************************************************************)
BulkPath(node) ==
    LET p == remove_read_number(node)[1]
    IN  is_signal_path(p) \/ is_events_path(p)

BulkColumnKeys ==
    UNION { { o.key : o \in { c \in ColOccs(Fast5(i)) : BulkPath(c.node) } } :
            i \in 1..Len(fast5_files) }

BulkAttrKeys ==
    UNION { { o.key : o \in { a \in AttrOccs(Fast5(i)) : BulkPath(a.node) } } :
            i \in 1..Len(fast5_files) }

C5_NoTagUnderBulkDataset ==
    (Encoding /\ skipsignal) =>
      \A n \in 1..Len(outf) :
        \A K \in BulkColumnKeys \cup BulkAttrKeys : TagOf(K) \notin DOMAIN outf[n].tags

(***************************************************************************)
(* C5 amended: with --skipsignal a record holds no tag of any column of a  *)
(* raw-signal or events dataset, and all its other tags, those of the      *)
(* attributes of these datasets included, are the ones the read gets with  *)
(* the flag unset.                                                         *)
(***************************************************************************)
\* the tags process_attrs gives the read of record r with the flag unset
FlagUnsetTags(r) ==
    visititems(global_dict_attributes, FALSE,
               [tags |-> set_tag(<<>>, FILENAME_TAG,
                                 TagValue(None, "str",
                                          <<Fast5(r.origin.file).basename>>)),
                fastq_path |-> None, exit |-> FALSE],
               Fast5(r.origin.file).nodes, r.origin.group, 1).tags

BulkColumnTags == { TagOf(K) : K \in BulkColumnKeys }

C5_SkipsBulkColumnsOnly ==
    (Encoding /\ skipsignal) =>
      \A n \in 1..Len(outf) :
        LET r == outf[n]
            u == FlagUnsetTags(r)
        IN  /\ \A K \in BulkColumnKeys : TagOf(K) \notin DOMAIN r.tags
            /\ DOMAIN r.tags = (DOMAIN u) \ BulkColumnTags
            /\ \A t \in DOMAIN r.tags : r.tags[t] = u[t]

C5_Witness ==
    /\ pc = "done" /\ skipsignal
    /\ \E n \in 1..Len(outf) :
         /\ \E K \in BulkColumnKeys : TagOf(K) \in DOMAIN FlagUnsetTags(outf[n])
         /\ \E K \in BulkAttrKeys : TagOf(K) \in DOMAIN outf[n].tags
         /\ \E K \in AttrKeys \ BulkAttrKeys : TagOf(K) \in DOMAIN outf[n].tags

(***************************************************************************)
(* C6: the header loop gives no default to a key whose count is 0 (a       *)
(* column), gives a key whose count exceeds floor(N/2) and that is no      *)
(* read_number key the stored value as its default, and gives no default   *)
(* to any other key.                                                       *)
(***************************************************************************)
C6_DefaultsFollowCounts ==
    [][ (pc = "header" /\ pc' = "phase2") =>
          /\ Len(global_dict_attributes') = Len(global_dict_attributes)
          /\ Len(comments_list') = Len(global_dict_attributes)
          /\ \A i \in 1..Len(global_dict_attributes) :
               LET e     == global_dict_attributes[i]
                   cv    == global_dict_attributes'[i].v1.CV
                   major == e.v1.n > Len(fast5_files) \div 2
               IN  /\ comments_list'[i].CV = cv
                   /\ e.v1.n = 0 => cv = NoCV
                   /\ (major /\ ~ HasReadNumber(e.key)) =>
                         (cv # NoCV /\ cv = Rendered(e.v0))
                   /\ (~ major \/ HasReadNumber(e.key)) => cv = NoCV ]_vars

C6_Witness ==
    /\ pc = "phase2"
    /\ \E i \in 1..Len(fast5_files) : Len(read_groups(Fast5(i))) > 1
    /\ \E i, j, k, l \in 1..Len(comments_list) :
         /\ comments_list[i].role = "ATR" /\ comments_list[i].CV # NoCV
         /\ comments_list[j].role = "ATR" /\ comments_list[j].CV = NoCV
         /\ ~ HasReadNumber(comments_list[j].key)
         /\ comments_list[k].role = "ATR" /\ HasReadNumber(comments_list[k].key)
         /\ comments_list[l].role = "COL"

(***************************************************************************)
(* C7: in the encoding pass every canonical key has one two-character tag, *)
(* no two keys share a tag, the tags increase strictly from a0 in the      *)
(* order the keys were first discovered, which is the order of the header  *)
(* lines, and no tag is X0, X1 or zZ.                                      *)
(***************************************************************************)
\* the keys discovery meets at a node, in order: columns, then attributes
NodeKeySeq(hdf_node) ==
    LET p    == remove_read_number(hdf_node.name)[1]
        cols == IF hdf_node.kind = "Dataset" /\ ~ is_fastq_path(p)
                THEN [j \in 1..Len(ColumnsOf(hdf_node)) |->
                        FullKey(p, ColumnsOf(hdf_node)[j][1])]
                ELSE <<>>
    IN  cols \o [j \in 1..Len(hdf_node.attrs) |-> FullKey(p, hdf_node.attrs[j][1])]

\* the keys of the listing in the order discovery meets them, from node m of
\* file i on, repeats included
RECURSIVE KeysMet(_, _)
KeysMet(i, m) ==
    IF i > Len(fast5_files) THEN <<>>
    ELSE IF m > Len(Fast5(i).nodes) THEN KeysMet(i + 1, 1)
    ELSE NodeKeySeq(Fast5(i).nodes[m]) \o KeysMet(i, m + 1)

\* a sequence without the repeats of its elements
RECURSIVE FirstOccurrences(_, _, _)
FirstOccurrences(seq, i, acc) ==
    IF i > Len(seq) THEN acc
    ELSE IF \E j \in 1..Len(acc) : acc[j] = seq[i]
         THEN FirstOccurrences(seq, i + 1, acc)
         ELSE FirstOccurrences(seq, i + 1, Append(acc, seq[i]))

C7_TagsUniqueOrdered ==
    Encoding =>
      LET d == global_dict_attributes
      IN  /\ Len(comments_list) = Len(d)
          /\ [i \in 1..Len(d) |-> d[i].key]
               = FirstOccurrences(KeysMet(1, 1), 1, <<>>)
          /\ Cardinality({ d[i].key : i \in 1..Len(d) }) = Len(d)
          /\ Cardinality({ d[i].v1.TG : i \in 1..Len(d) }) = Len(d)
          /\ \A i \in 1..Len(d) :
               /\ d[i].v1.is_str
               /\ Len(d[i].v1.TG) = 2
               /\ d[i].v1.TG \notin {READ_NUM_TAG, FILENAME_TAG, LAST_TAG}
               /\ comments_list[i].key = d[i].key
               /\ comments_list[i].TG = d[i].v1.TG
               /\ i = 1 => d[i].v1.TG = FIRST_TAG
               /\ i > 1 => tag_to_int(d[i].v1.TG) > tag_to_int(d[i-1].v1.TG)

C7_Witness ==
    /\ pc = "done"
    /\ Len(fast5_files) >= 2
    /\ Len(global_dict_attributes) >= 8

(***************************************************************************)
(* C8 as stated: the run exits whenever advancing the counter yields zZ:   *)
(* a dictionary whose keys take every code from a0 to the one before zZ    *)
(* exits, one with fewer keys does not.                                    *)
(***************************************************************************)
AllocOver == alloc.pc \in {"phase2", "exit_header"}

C8_ExitWhenAdvanceYieldsLast ==
    AllocOver => (alloc.pc = "exit_header" <=> alloc.total >= Capacity)

(***************************************************************************)
(* C8 amended: a key gets the current code and the counter then advances;  *)
(* the run exits when the code just taken for a key is zZ itself: a        *)
(* dictionary whose keys take every code from a0 to the one before zZ does *)
(* not exit, one more key makes the run exit before the encoding pass.     *)
(***************************************************************************)
C8_ExitWhenLastIsTaken ==
    /\ AllocOver => (alloc.pc = "exit_header" <=> alloc.total > Capacity)
    /\ alloc.pc = "exit_header" =>
         /\ alloc.done = Capacity
         /\ int_to_tag(alloc.current_tag_num - 1) = LAST_TAG
    /\ (alloc.pc \in {"header", "phase2"} /\ alloc.done > 0) =>
         /\ alloc.name = int_to_tag(alloc.current_tag_num - 1)
         /\ alloc.current_tag_num = tag_to_int(FIRST_TAG) + alloc.done
         /\ alloc.name # LAST_TAG

C8_Witness ==
    /\ alloc.pc = "phase2"
    /\ alloc.total = Capacity
    /\ alloc.name = <<"z", "Y">>

(***************************************************************************)
(* C9 as stated: a record is written only for a read whose sequence        *)
(* payload exists and splits into exactly four lines: a read with neither  *)
(* an embedded sequence node nor a companion source, an embedded node of   *)
(* other than four lines, or a companion file of other than four lines     *)
(* makes the run exit with no record for that read.                        *)
(***************************************************************************)
\* the embedded sequence nodes visititems meets under read group rg
OwnFastq(fast5, rg) ==
    { fast5.nodes[i] : i \in { j \in 1..Len(fast5.nodes) :
                                 /\ Visits(rg, fast5.nodes[j].name)
                                 /\ is_fastq_path(fast5.nodes[j].name) } }

C9_RecordOnlyWithFourLines ==
    \A n \in 1..Len(outf) :
      LET f   == Fast5(outf[n].origin.file)
          own == OwnFastq(f, outf[n].origin.group)
      IN  /\ own # {} \/ fastq_dir
          /\ \A e \in own : Len(splitlines(e.data)) = 4
          /\ fastq_dir => (f.fastq # MissingFile /\ Len(splitlines(f.fastq)) = 4)

(***************************************************************************)
(* C9 amended: only the companion file is validated.  With a companion     *)
(* directory a record is written only from a companion file of exactly     *)
(* four lines.  Without one, a read for which no embedded sequence node    *)
(* has been met in its file so far gets a record with the placeholder name *)
(* "nofastq" and no sequence or quality, and otherwise the record is       *)
(* written from lines 1, 2 and 4 of an embedded node of at least four      *)
(* lines; with fewer than four lines the run exits with no record.         *)
(***************************************************************************)
\* the embedded sequence nodes of a file up to the end of read group rg
FastqSoFar(fast5, rg) ==
    LET rgs == read_groups(fast5)
        upto == CHOOSE k \in 1..Len(rgs) : rgs[k] = rg
    IN  UNION { OwnFastq(fast5, rgs[k]) : k \in 1..upto }

FromLines(r, lines) ==
    /\ r.query_name = lines[1]
    /\ r.query_sequence = lines[2]
    /\ r.query_qualities = qualitystring_to_array(lines[4])

C9_RecordFromResolvedLines ==
    \A n \in 1..Len(outf) :
      LET r == outf[n]
          f == Fast5(r.origin.file)
          E == FastqSoFar(f, r.origin.group)
      IN  IF fastq_dir
          THEN /\ f.fastq # MissingFile
               /\ Len(splitlines(f.fastq)) = 4
               /\ FromLines(r, splitlines(f.fastq))
          ELSE IF E = {}
          THEN /\ r.query_name = <<"nofastq">>
               /\ r.query_sequence = NoneLine
               /\ r.query_qualities = NoneArray
          ELSE \E e \in E : /\ Len(splitlines(e.data)) >= 4
                            /\ FromLines(r, splitlines(e.data))

C9_Witness ==
    /\ pc = "exit_phase2"
    /\ fastq_dir
    /\ Len(outf) >= 1
    /\ Fast5(file_idx).fastq # MissingFile
    /\ Len(splitlines(Fast5(file_idx).fastq)) = 5

(***************************************************************************)
(* C10: without a companion directory, a record of a multi-read file takes *)
(* its name, sequence and quality from the embedded sequence node of its   *)
(* own read group, and a read group without such a node never gets the     *)
(* payload of a read group handled earlier in the file.                    *)
(***************************************************************************)
C10_OwnSequenceOnly ==
    ~ fastq_dir =>
      \A n \in 1..Len(outf) :
        LET r   == outf[n]
            f   == Fast5(r.origin.file)
            own == OwnFastq(f, r.origin.group)
        IN  r.origin.group # <<"/">> =>
              IF own # {}
              THEN \E e \in own : FromLines(r, splitlines(e.data))
              ELSE \A e \in FastqSoFar(f, r.origin.group) :
                     r.query_name # splitlines(e.data)[1]

=============================================================================
